---- MODULE Spec2Model ----
(***************************************************************************)
(* A model of src/weather.py: the Weather class of the AI weather plugin.  *)
(*                                                                         *)
(*   - fetch_weather, statement by statement, for callers that may         *)
(*     interleave (Spec);                                                  *)
(*   - main, the orchestrator, on one thread (SpecMain);                   *)
(*   - _clean_ai_response, the pure response cleaner (SpecClean).          *)
(*                                                                         *)
(* Text is a sequence of one-character strings.  The backtick character is *)
(* written "BT" (a backtick inside a TLA+ string does not lex).            *)
(***************************************************************************)
EXTENDS Naturals, Sequences, FiniteSets

(***************************************************************************)
(* Bounds of the model.                                                    *)
(***************************************************************************)
NumThreads == 2    \* threads that may call into one Weather instance
MaxCalls == 3      \* fetch_weather calls started in one behaviour
MaxLen == 6        \* length of the texts given to _clean_ai_response
MaxBody == 3       \* length of the body of a fenced reply
MaxTag == 2        \* length of the language tag of a fence opener
MaxReplyLen == 2   \* length of the free-form replies of the AI backend

(***************************************************************************)
(* Characters and text.                                                    *)
(***************************************************************************)
BT == "BT"
NL == "\n"
SP == " "
Letters == {"a"}
Others == {"1"}
Alphabet == {BT, NL, SP} \cup Letters \cup Others
Whitespace == {SP, NL, "\t", "\r"}
TagLetters == {"a", "J"}
\* [a-zA-Z], on the letters the model writes text with.
AsciiLetters ==
    Letters \cup TagLetters
    \cup {"B", "D", "E", "G", "H", "I", "L", "O", "U"}
    \cup {"b", "d", "e", "f", "g", "n", "o", "u"}

RECURSIVE StringsOfLen(_, _)
StringsOfLen(A, n) ==
    IF n = 0 THEN {<<>>}
    ELSE {<<c>> \o s : c \in A, s \in StringsOfLen(A, n - 1)}

StringsUpTo(A, n) == UNION {StringsOfLen(A, k) : k \in 0..n}

Drop(s, n) == IF n >= Len(s) THEN <<>> ELSE SubSeq(s, n + 1, Len(s))
Take(s, n) == IF n >= Len(s) THEN s ELSE SubSeq(s, 1, n)

StartsWith(s, p) == Len(s) >= Len(p) /\ SubSeq(s, 1, Len(p)) = p
EndsWith(s, p) == Len(s) >= Len(p) /\ SubSeq(s, Len(s) - Len(p) + 1, Len(s)) = p

Fence == <<BT, BT, BT>>

\* str.strip(): leading and trailing whitespace removed.
RECURSIVE lstrip(_)
lstrip(s) == IF s # <<>> /\ Head(s) \in Whitespace THEN lstrip(Tail(s)) ELSE s

RECURSIVE rstrip(_)
rstrip(s) ==
    IF s # <<>> /\ s[Len(s)] \in Whitespace THEN rstrip(Take(s, Len(s) - 1)) ELSE s

strip(s) == rstrip(lstrip(s))

\* [a-zA-Z]* : the longest run of letters at the start of s is consumed.
RECURSIVE DropLetters(_)
DropLetters(s) ==
    IF s # <<>> /\ Head(s) \in AsciiLetters THEN DropLetters(Tail(s)) ELSE s

\* \n? at the start of s.
DropLeadingNL(s) == IF s # <<>> /\ Head(s) = NL THEN Tail(s) ELSE s

\* \n? at the end of s.
DropTrailingNL(s) ==
    IF s # <<>> /\ s[Len(s)] = NL THEN Take(s, Len(s) - 1) ELSE s

\* re.sub(r'^```[a-zA-Z]*\n?', '', s): without re.MULTILINE, ^ is the start
\* of the text only, so at most one opener is removed.
SubOpenerNoTag(s) ==
    IF StartsWith(s, Fence) THEN DropLeadingNL(Drop(s, 3)) ELSE s

SubOpener(s) ==
    IF StartsWith(s, Fence) THEN DropLeadingNL(DropLetters(Drop(s, 3))) ELSE s

\* re.sub(r'\n?```$', '', s): without re.MULTILINE, $ is the end of the text
\* or the place before a newline that ends the text; the leftmost match takes
\* the optional newline before the fence.
SubCloserNeedsNL(s) ==
    IF EndsWith(s, <<NL>> \o Fence) THEN Take(s, Len(s) - 4) ELSE s

SubCloser(s) ==
    IF EndsWith(s, Fence)
    THEN DropTrailingNL(Take(s, Len(s) - 3))
    ELSE IF EndsWith(s, Fence \o <<NL>>)
         THEN DropTrailingNL(Take(s, Len(s) - 4)) \o <<NL>>
         ELSE s

\* Weather._clean_ai_response
_clean_ai_response(ai_response) ==
    LET cleaned == SubOpener(strip(ai_response))
    IN  SubCloser(strip(cleaned))

\* Weather.process_ai_response
process_ai_response(ai_response) == _clean_ai_response(ai_response)

(***************************************************************************)
(* Values.                                                                 *)
(***************************************************************************)
None == "None"
Snapshots == {"{temp: -5}", "{temp: 3}"}

\* What one requests.get(api, timeout=10) can do: return a response (a status
\* code and a body) or raise.
Responses ==
    {[kind |-> "response", status_code |-> 200, body |-> "json", properties |-> p] :
        p \in Snapshots \cup {None}}
    \cup {[kind |-> "response", status_code |-> 200, body |-> "not json",
            properties |-> None],
          [kind |-> "response", status_code |-> 500, body |-> "not json",
            properties |-> None]}
Raised ==
    {[kind |-> "raise", status_code |-> 0, body |-> m, properties |-> None] :
        m \in {"Read timed out.", "Connection refused"}}
Outcomes == Responses \cup Raised
NoOutcome == [kind |-> "none", status_code |-> 0, body |-> "", properties |-> None]
Blocked == [kind |-> "blocked", status_code |-> 0, body |-> "", properties |-> None]

\* str(e) of the exception the try block raises: the one requests.get raised,
\* or the JSONDecodeError of resp.json() on a body that is not JSON.
JsonErrorMessage == "Expecting value: line 1 column 1 (char 0)"
ExceptionMessage(o) == IF o.kind = "raise" THEN o.body ELSE JsonErrorMessage

\* The calls that do not hand back a snapshot.
Failed(o) ==
    \/ o.kind = "raise"
    \/ o.kind = "response" /\ o.status_code # 200
    \/ o.kind = "response" /\ o.status_code = 200 /\ o.body # "json"
    \/ o.kind = "response" /\ o.status_code = 200 /\ o.body = "json"
          /\ o.properties = None

(***************************************************************************)
(* Logging configuration.                                                  *)
(***************************************************************************)
LogModes ==
    {<<"d", "e", "b", "u", "g">>, <<"D", "e", "b", "u", "g">>,
     <<"D", "E", "B", "U", "G">>, <<"I", "n", "f", "o">>}

\* str.lower(), on the letters the log modes are written with.
LowerChar(c) ==
    CASE c = "D" -> "d" [] c = "E" -> "e" [] c = "B" -> "b" [] c = "U" -> "u"
      [] c = "G" -> "g" [] c = "I" -> "i" [] c = "H" -> "h" [] c = "L" -> "l"
      [] c = "O" -> "o" [] OTHER -> c

lower(s) == [i \in 1..Len(s) |-> LowerChar(s[i])]

\* Weather._configure_logging: the level handed to logging.basicConfig.
_configure_logging(log_mode) ==
    IF lower(log_mode) = <<"d", "e", "b", "u", "g">> THEN "DEBUG" ELSE "INFO"

(***************************************************************************)
(* State.                                                                  *)
(***************************************************************************)
VARIABLES
    _fetching,        \* Weather._fetching
    loading,          \* Weather.loading
    fetch_error,      \* Weather.fetch_error
    data,             \* Weather.data
    log_level,        \* the level of the root logger
    cfg_log_mode,     \* the "Log Mode" setting of the preferences file
    pc,               \* per thread: the statement it is at
    caller,           \* per thread: who called fetch_weather ("main" or "direct")
    outcome,          \* per thread: what the request of its call did
    ret,              \* per thread: the value its fetch_weather call returned
    httpCalls,        \* requests.get calls issued so far
    calls,            \* fetch_weather calls started so far
    overlap,          \* whether some call started while another was outstanding
    argv,             \* sys.argv of the run of main
    weather,          \* main's local: what fetch_weather returned
    prompt_addendum,  \* main's local: the addendum sent with the message
    aiCalls,          \* payload.send_message calls issued so far
    reply,            \* main's local: the raw reply of the AI backend
    clean_ret,        \* main's local ret: the cleaned reply
    response_val,     \* what main returned
    raw_text,         \* the text given to _clean_ai_response
    response_text,    \* the text _clean_ai_response returned
    clean_done        \* whether _clean_ai_response has returned

weatherVars == <<_fetching, loading, fetch_error, data>>
logVars == <<log_level, cfg_log_mode>>
threadVars == <<pc, caller, outcome, ret>>
envVars == <<httpCalls, calls, overlap>>
mainVars == <<argv, weather, prompt_addendum, aiCalls, reply, clean_ret, response_val>>
cleanVars == <<raw_text, response_text, clean_done>>
vars == <<weatherVars, logVars, threadVars, envVars, mainVars, cleanVars>>

Threads == 1..NumThreads
MainThread == 1

\* The statements of fetch_weather a thread can be at.
FetchPcs == {"L76", "L78", "L82", "get", "L86", "L89", "L90", "L92", "L94", "L95"}
\* Between the store of line 78 and the store of line 94.
HoldsFlag(t) == pc[t] \in {"L82", "get", "L86", "L89", "L90", "L92", "L94"}
Outstanding(t) == pc[t] \in FetchPcs

(***************************************************************************)
(* Weather.__init__: the state after construction.                         *)
(***************************************************************************)
InitWeather(mode) ==
    /\ cfg_log_mode = mode
    /\ log_level = _configure_logging(mode)
    /\ _fetching = FALSE
    /\ loading = TRUE
    /\ fetch_error = None
    /\ data = None

InitRest ==
    /\ pc = [t \in Threads |-> "idle"]
    /\ caller = [t \in Threads |-> "direct"]
    /\ outcome = [t \in Threads |-> NoOutcome]
    /\ ret = [t \in Threads |-> None]
    /\ httpCalls = 0
    /\ calls = 0
    /\ overlap = FALSE
    /\ argv = <<>>
    /\ weather = None
    /\ prompt_addendum = <<>>
    /\ aiCalls = 0
    /\ reply = <<>>
    /\ clean_ret = <<>>
    /\ response_val = <<>>

InitNoClean ==
    /\ raw_text = <<>>
    /\ response_text = <<>>
    /\ clean_done = FALSE

Init == InitWeather(<<"I", "n", "f", "o">>) /\ InitRest /\ InitNoClean

(***************************************************************************)
(* Weather.fetch_weather, one action per statement that reads or writes    *)
(* the instance.                                                           *)
(***************************************************************************)
\* Where a call goes back to.
ReturnTo(t) == IF caller[t] = "main" THEN "m_fetched" ELSE "returned"

\* A thread calls fetch_weather directly.
Call(t) ==
    /\ pc[t] \in {"idle", "returned"}
    /\ calls < MaxCalls
    /\ calls' = calls + 1
    /\ overlap' = (overlap \/ \E u \in Threads \ {t} : Outstanding(u))
    /\ pc' = [pc EXCEPT ![t] = "L76"]
    /\ caller' = [caller EXCEPT ![t] = "direct"]
    /\ outcome' = [outcome EXCEPT ![t] = NoOutcome]
    /\ ret' = [ret EXCEPT ![t] = None]
    /\ UNCHANGED <<weatherVars, logVars, httpCalls, mainVars, cleanVars>>

\* Line 76-77: if self._fetching: return
Guard(t) ==
    /\ pc[t] = "L76"
    /\ IF _fetching
       THEN /\ pc' = [pc EXCEPT ![t] = ReturnTo(t)]
            /\ outcome' = [outcome EXCEPT ![t] = Blocked]
            /\ ret' = [ret EXCEPT ![t] = None]
       ELSE /\ pc' = [pc EXCEPT ![t] = "L78"]
            /\ UNCHANGED <<outcome, ret>>
    /\ UNCHANGED <<weatherVars, logVars, caller, envVars, mainVars, cleanVars>>

\* Line 78: self._fetching = True
SetFetching(t) ==
    /\ pc[t] = "L78"
    /\ _fetching' = TRUE
    /\ pc' = [pc EXCEPT ![t] = "L82"]
    /\ UNCHANGED <<loading, fetch_error, data, logVars, caller, outcome, ret,
                   envVars, mainVars, cleanVars>>

\* Line 82: requests.get(api, timeout=10) is issued.
IssueGet(t) ==
    /\ pc[t] = "L82"
    /\ httpCalls' = httpCalls + 1
    /\ pc' = [pc EXCEPT ![t] = "get"]
    /\ UNCHANGED <<weatherVars, logVars, caller, outcome, ret, calls, overlap,
                   mainVars, cleanVars>>

\* Line 82: requests.get returns a response, or raises.
GetCompletes(t) ==
    /\ pc[t] = "get"
    /\ \E o \in Outcomes :
         /\ outcome' = [outcome EXCEPT ![t] = o]
         /\ pc' = [pc EXCEPT ![t] = IF o.kind = "raise" THEN "L92" ELSE "L86"]
    /\ UNCHANGED <<weatherVars, logVars, caller, ret, envVars, mainVars, cleanVars>>

\* Lines 86-88: the status test, resp.json() and the 'properties' test; all
\* on locals.  A status other than 200, or a body without 'properties', falls
\* through to the finally block; a body that is not JSON raises.
HandleResponse(t) ==
    /\ pc[t] = "L86"
    /\ LET o == outcome[t]
       IN  pc' = [pc EXCEPT ![t] =
                   IF o.status_code # 200 THEN "L94"
                   ELSE IF o.body # "json" THEN "L92"
                   ELSE IF o.properties # None THEN "L89"
                   ELSE "L94"]
    /\ UNCHANGED <<weatherVars, logVars, caller, outcome, ret, envVars, mainVars,
                   cleanVars>>

\* Line 89: self.data = decoded["properties"]
StoreData(t) ==
    /\ pc[t] = "L89"
    /\ data' = outcome[t].properties
    /\ pc' = [pc EXCEPT ![t] = "L90"]
    /\ UNCHANGED <<_fetching, loading, fetch_error, logVars, caller, outcome, ret,
                   envVars, mainVars, cleanVars>>

\* Line 90: return self.data (the value is read here; finally runs next).
ReturnData(t) ==
    /\ pc[t] = "L90"
    /\ ret' = [ret EXCEPT ![t] = data]
    /\ pc' = [pc EXCEPT ![t] = "L94"]
    /\ UNCHANGED <<weatherVars, logVars, caller, outcome, envVars, mainVars,
                   cleanVars>>

\* Lines 91-92: except Exception as e: self.fetch_error = str(e)
ExceptPropagates(t) ==
    /\ pc[t] = "L92"
    /\ pc' = [pc EXCEPT ![t] = IF caller[t] = "main" THEN "m_aborted" ELSE "returned"]
    /\ UNCHANGED <<weatherVars, logVars, caller, outcome, ret, envVars, mainVars,
                   cleanVars>>

Except(t) ==
    /\ pc[t] = "L92"
    /\ fetch_error' = ExceptionMessage(outcome[t])
    /\ pc' = [pc EXCEPT ![t] = "L94"]
    /\ UNCHANGED <<_fetching, loading, data, logVars, caller, outcome, ret,
                   envVars, mainVars, cleanVars>>

\* Line 94 (finally): self._fetching = False
FinallyKeepsFlagOnError(t) ==
    /\ pc[t] = "L94"
    /\ _fetching' = IF Failed(outcome[t]) THEN _fetching ELSE FALSE
    /\ pc' = [pc EXCEPT ![t] = "L95"]
    /\ UNCHANGED <<loading, fetch_error, data, logVars, caller, outcome, ret,
                   envVars, mainVars, cleanVars>>

FinallyFetching(t) ==
    /\ pc[t] = "L94"
    /\ _fetching' = FALSE
    /\ pc' = [pc EXCEPT ![t] = "L95"]
    /\ UNCHANGED <<loading, fetch_error, data, logVars, caller, outcome, ret,
                   envVars, mainVars, cleanVars>>

\* Line 95 (finally): self.loading = False; then the call returns.
FinallyLoading(t) ==
    /\ pc[t] = "L95"
    /\ loading' = FALSE
    /\ pc' = [pc EXCEPT ![t] = ReturnTo(t)]
    /\ UNCHANGED <<_fetching, fetch_error, data, logVars, caller, outcome, ret,
                   envVars, mainVars, cleanVars>>

fetch_weather(t) ==
    \/ Guard(t)
    \/ SetFetching(t)
    \/ IssueGet(t)
    \/ GetCompletes(t)
    \/ HandleResponse(t)
    \/ StoreData(t)
    \/ ReturnData(t)
    \/ Except(t)
    \/ FinallyFetching(t)
    \/ FinallyLoading(t)

(***************************************************************************)
(* Spec: threads that call fetch_weather on one instance.                  *)
(***************************************************************************)
Next == \E t \in Threads : Call(t) \/ fetch_weather(t)

Spec == Init /\ [][Next]_vars

(***************************************************************************)
(* Weather.main on the main thread.                                        *)
(***************************************************************************)
UsageMsg ==
    <<"<", "M", "E", "S", "S", "A", "G", "E", "_", "T", "O", "_", "A", "I",
      ">", " ", "a", "n", "d", " ", "<", "R", "E", "G", "I", "O", "N", "_",
      "C", "O", "D", "E", ">", " ", "p", "a", "r", "a", "m", "e", "t", "e",
      "r", "s", " ", "a", "r", "e", " ", "r", "e", "q", "u", "i", "r", "e",
      "d", ",", " ", "W", "e", "a", "t", "h", "e", "r", " ", "e", "x", "i",
      "t", "i", "n", "g">>

FallbackMsg ==
    <<"A", "I", " ", "r", "e", "s", "p", "o", "n", "s", "e", " ", "e", "r",
      "r", "o", "r", ",", " ", "c", "o", "u", "l", "d", " ", "n", "o", "t",
      " ", "c", "l", "e", "a", "n">>

\* sys.argv: the script, then what the command line gave.
ArgvSet ==
    {<<"weather.py">>,
     <<"weather.py", "Is it cold?">>,
     <<"weather.py", "Is it cold?", "on-117">>}
    \cup {<<"weather.py", "Is it cold?", "on-117", m>> : m \in LogModes}

\* A fenced reply: opener (fence, tag, newline), body, gap, closer (fence).
Fenced(tag, body, gap) == Fence \o tag \o <<NL>> \o body \o gap \o Fence

Hello == <<"H", "E", "L", "L", "O">>
HelloReply == Fenced(<<>>, Hello, <<NL>>)

\* What payload.send_message may return.
Replies == StringsUpTo(Alphabet, MaxReplyLen) \cup {HelloReply, Fence}

\* Line 116: if len(sys.argv) < 3
MissingArgumentsOld(args) == Len(args) < 2

MissingArguments(args) == Len(args) < 3

\* Lines 171-175: if ret: response_val = ret or "" else: the fixed message.
ResponseValNoFallback(r) == r

ResponseVal(r) == IF r # <<>> THEN r ELSE FallbackMsg

\* Lines 116-123: the argument check; the usage string is returned.
MainArgs(t) ==
    /\ pc[t] = "idle"
    /\ argv = <<>>
    /\ \E args \in ArgvSet :
         /\ argv' = args
         /\ IF MissingArguments(args)
            THEN /\ response_val' = UsageMsg
                 /\ pc' = [pc EXCEPT ![t] = "m_usage"]
            ELSE /\ response_val' = response_val
                 /\ pc' = [pc EXCEPT ![t] = "m_setup"]
    /\ UNCHANGED <<weatherVars, logVars, caller, outcome, ret, envVars, weather,
                   prompt_addendum, aiCalls, reply, clean_ret, cleanVars>>

\* Lines 126-145: the start of the log, load_prompt and the connection's
\* setters; the level of the logger is not touched.
MainSetup(t) ==
    /\ pc[t] = "m_setup"
    /\ pc' = [pc EXCEPT ![t] = "m_call_fetch"]
    /\ UNCHANGED <<weatherVars, logVars, caller, outcome, ret, envVars, mainVars,
                   cleanVars>>

\* Lines 131-145: a call into the payload raises; main has no handler.
MainSetupRaises(t) ==
    /\ pc[t] = "m_setup"
    /\ pc' = [pc EXCEPT ![t] = "m_aborted"]
    /\ UNCHANGED <<weatherVars, logVars, caller, outcome, ret, envVars, mainVars,
                   cleanVars>>

\* Line 149: weather = self.fetch_weather(region_code), the call.
MainCallFetch(t) ==
    /\ pc[t] = "m_call_fetch"
    /\ calls' = calls + 1
    /\ overlap' = (overlap \/ \E u \in Threads \ {t} : Outstanding(u))
    /\ pc' = [pc EXCEPT ![t] = "L76"]
    /\ caller' = [caller EXCEPT ![t] = "main"]
    /\ outcome' = [outcome EXCEPT ![t] = NoOutcome]
    /\ ret' = [ret EXCEPT ![t] = None]
    /\ UNCHANGED <<weatherVars, logVars, httpCalls, mainVars, cleanVars>>

\* Lines 149-153: the call has returned; prompt_addendum = f"Weather: {weather}"
MainFetched(t) ==
    /\ pc[t] = "m_fetched"
    /\ weather' = ret[t]
    /\ prompt_addendum' = <<"Weather: ", ret[t]>>
    /\ pc' = [pc EXCEPT ![t] = "m_send"]
    /\ UNCHANGED <<weatherVars, logVars, caller, outcome, ret, envVars, argv,
                   aiCalls, reply, clean_ret, response_val, cleanVars>>

\* Line 164: self.payload.send_message(user_msg, prompt, prompt_addendum), sent.
MainSend(t) ==
    /\ pc[t] = "m_send"
    /\ aiCalls' = aiCalls + 1
    /\ pc' = [pc EXCEPT ![t] = "m_wait_ai"]
    /\ UNCHANGED <<weatherVars, logVars, caller, outcome, ret, envVars, argv,
                   weather, prompt_addendum, reply, clean_ret, response_val,
                   cleanVars>>

\* Line 164: send_message returns the reply.
MainReply(t) ==
    /\ pc[t] = "m_wait_ai"
    /\ \E r \in Replies : reply' = r
    /\ pc' = [pc EXCEPT ![t] = "m_replied"]
    /\ UNCHANGED <<weatherVars, logVars, caller, outcome, ret, envVars, argv,
                   weather, prompt_addendum, aiCalls, clean_ret, response_val,
                   cleanVars>>

\* Line 164: send_message raises; main has no handler.
MainSendRaises(t) ==
    /\ pc[t] = "m_wait_ai"
    /\ pc' = [pc EXCEPT ![t] = "m_aborted"]
    /\ UNCHANGED <<weatherVars, logVars, caller, outcome, ret, envVars, mainVars,
                   cleanVars>>

\* Line 170: ret = self.process_ai_response(reply)
MainProcess(t) ==
    /\ pc[t] = "m_replied"
    /\ clean_ret' = process_ai_response(reply)
    /\ pc' = [pc EXCEPT ![t] = "m_cleaned"]
    /\ UNCHANGED <<weatherVars, logVars, caller, outcome, ret, envVars, argv,
                   weather, prompt_addendum, aiCalls, reply, response_val,
                   cleanVars>>

\* Lines 171-179: the fallback and return response_val
MainReturn(t) ==
    /\ pc[t] = "m_cleaned"
    /\ response_val' = ResponseVal(clean_ret)
    /\ pc' = [pc EXCEPT ![t] = "m_done"]
    /\ UNCHANGED <<weatherVars, logVars, caller, outcome, ret, envVars, argv,
                   weather, prompt_addendum, aiCalls, reply, clean_ret, cleanVars>>

main(t) ==
    \/ MainArgs(t)
    \/ MainSetup(t)
    \/ MainSetupRaises(t)
    \/ MainCallFetch(t)
    \/ MainFetched(t)
    \/ MainSend(t)
    \/ MainReply(t)
    \/ MainSendRaises(t)
    \/ MainProcess(t)
    \/ MainReturn(t)

\* The step of the run the main thread is at.
Phase ==
    LET p == pc[MainThread]
    IN  CASE p = "idle" -> "Start"
          [] p = "m_usage" -> "UsageError"
          [] p = "m_setup" -> "ArgsValidated"
          [] p = "m_call_fetch" -> "LoggingConfigured"
          [] p \in FetchPcs \cup {"m_fetched"} -> "Fetching"
          [] p = "m_send" -> "Fetched"
          [] p = "m_wait_ai" -> "AIRequested"
          [] p = "m_replied" -> "AIReplied"
          [] p = "m_cleaned" -> "Cleaned"
          [] p = "m_done" -> "Done"
          [] OTHER -> "Aborted"

(***************************************************************************)
(* SpecMain: one run of main, for every Log Mode of the preferences file.  *)
(***************************************************************************)
InitMain == (\E m \in LogModes : InitWeather(m)) /\ InitRest /\ InitNoClean

NextMain == main(MainThread) \/ fetch_weather(MainThread)

SpecMain == InitMain /\ [][NextMain]_vars

(***************************************************************************)
(* SpecClean: _clean_ai_response applied to one text.                      *)
(***************************************************************************)
\* No run of three backticks anywhere in s.
NoFence(s) == \A i \in 1..Len(s) : ~StartsWith(Drop(s, i - 1), Fence)

\* A body: no backtick, no whitespace at either end.
IsBody(s) == (\A i \in 1..Len(s) : s[i] # BT) /\ strip(s) = s

Tags == StringsUpTo(TagLetters, MaxTag)
Bodies == {b \in StringsUpTo(Alphabet, MaxBody) : IsBody(b)}
Gaps == {<<NL>>, <<>>, <<SP>>, <<SP, NL>>}

FencedInputs == {Fenced(tag, body, gap) : tag \in Tags, body \in Bodies, gap \in Gaps}

\* A reply wrapped in two levels of fences.
DoubleFenced(tag, body) == Fenced(tag, Fenced(tag, body, <<NL>>), <<NL>>)
DoubleFencedInputs == {DoubleFenced(tag, body) : tag \in Tags, body \in Bodies}

\* The texts given: every text up to MaxLen, and the fenced ones.
InitClean ==
    /\ InitWeather(<<"I", "n", "f", "o">>)
    /\ InitRest
    /\ \/ \E n \in 0..MaxLen : raw_text \in [1..n -> Alphabet]
       \/ raw_text \in FencedInputs
       \/ raw_text \in DoubleFencedInputs
    /\ response_text = <<>>
    /\ clean_done = FALSE

\* One call of _clean_ai_response.
Clean ==
    /\ ~clean_done
    /\ response_text' = _clean_ai_response(raw_text)
    /\ clean_done' = TRUE
    /\ UNCHANGED <<weatherVars, logVars, threadVars, envVars, mainVars, raw_text>>

NextClean == Clean

SpecClean == InitClean /\ [][NextClean]_vars

(***************************************************************************)
(* Properties of fetch_weather, under Spec.                                *)
(***************************************************************************)
\* The step in which the fetch_weather call of thread t returns.
Returns(t) == pc[t] \in FetchPcs /\ pc'[t] = "returned"

\* The call of thread t got past the guard and has returned.
ReturnedFromRequest(t) ==
    pc[t] = "returned" /\ outcome[t].kind \in {"response", "raise"}

\* C1: every fetch_weather call that got past the guard has reset _fetching
\* by the time it returns, whatever the request did: _fetching is true only
\* while some call is between its store of True and its store of False, so it
\* is false when a call returns with no other call holding it, and false once
\* every call has completed.
C1_GuardReleased ==
    /\ _fetching => \E u \in Threads : HoldsFlag(u)
    /\ \A t \in Threads :
         (ReturnedFromRequest(t) /\ \A u \in Threads \ {t} : ~HoldsFlag(u))
            => _fetching = FALSE
    /\ (\A t \in Threads : pc[t] \in {"idle", "returned"}) => _fetching = FALSE

\* A call whose request raised has returned, the guard is released, and the
\* calls of the other threads have completed too.
C1_Witness ==
    \E t \in Threads :
        /\ ReturnedFromRequest(t)
        /\ outcome[t].kind = "raise"
        /\ _fetching = FALSE
        /\ calls >= 2
        /\ \A u \in Threads \ {t} : pc[u] = "returned"

\* The requests C2 speaks of: a timeout, a connection error, a status other
\* than 200.
TimedOutOrRefusedOrBadStatus(o) ==
    \/ o.kind = "raise"
    \/ o.kind = "response" /\ o.status_code # 200

\* C2: a fetch_weather call whose request times out, raises a connection
\* error or returns a status other than 200 returns None and leaves a
\* non-empty error message in fetch_error.
C2_FailureRecorded ==
    [][\A t \in Threads :
        (Returns(t) /\ TimedOutOrRefusedOrBadStatus(outcome'[t]))
            => /\ ret'[t] = None
               /\ fetch_error' # None
               /\ fetch_error' # ""]_vars

\* C3: a call made while _fetching is true returns without a request, and
\* under any interleaving of the callers at most one HTTP GET of the instance
\* is in flight at a time.
C3_OneRequestAtATime ==
    /\ \A t \in Threads : outcome[t] = Blocked => pc[t] \notin FetchPcs
    /\ Cardinality({t \in Threads : pc[t] = "get"}) <= 1

\* C8: in a sequence of calls (none overlapping another), when a failed call
\* returns the stored snapshot is None, also after an earlier call stored one.
C8_FailureClearsSnapshot ==
    [][\A t \in Threads :
        (Returns(t) /\ Failed(outcome'[t]) /\ ~overlap') => data' = None]_vars

(***************************************************************************)
(* Properties of main, under SpecMain.                                     *)
(***************************************************************************)
\* C4: a run of main with fewer than a message and a region code after the
\* program name returns the usage string, and issues neither the weather GET
\* nor send_message.
C4_UsageErrorNoNetwork ==
    (argv # <<>> /\ Len(argv) < 3)
        => /\ Phase = "UsageError"
           /\ response_val = UsageMsg
           /\ httpCalls = 0
           /\ aiCalls = 0
           /\ calls = 0

\* The run was given the message and no region code, and has returned.
C4_Witness ==
    /\ Len(argv) = 2
    /\ Phase = "UsageError"
    /\ response_val = UsageMsg

\* C5: main returns the cleaned reply when that is not empty and the fixed
\* message when it is; the fenced HELLO comes back as HELLO; main never
\* returns the empty string.
C5_ReturnsCleanedOrFallback ==
    Phase = "Done"
        => /\ _clean_ai_response(reply) # <<>>
                => response_val = _clean_ai_response(reply)
           /\ _clean_ai_response(reply) = <<>> => response_val = FallbackMsg
           /\ reply = HelloReply => response_val = Hello
           /\ response_val # <<>>

\* The backend sent the fenced HELLO and main has returned HELLO.
C5_Witness ==
    /\ Phase = "Done"
    /\ reply = HelloReply
    /\ response_val = Hello

\* C6: given a third argument, the level of the logger during the run is
\* DEBUG exactly when that argument is "debug" in any case, whatever the Log
\* Mode of the preferences file; without it the Log Mode decides.
C6_ArgumentOverridesLogMode ==
    Phase \notin {"Start", "UsageError"}
        => /\ Len(argv) >= 4
                => (log_level = "DEBUG"
                      <=> lower(argv[4]) = <<"d", "e", "b", "u", "g">>)
           /\ Len(argv) < 4 => log_level = _configure_logging(cfg_log_mode)

\* C10 as stated: an AI backend error is absorbed; once the AI request is
\* sent the run does not fail terminally.
C10_BackendErrorAbsorbed == aiCalls = 1 => Phase # "Aborted"

\* The steps a run takes, in order; it aborts only where a call into the
\* payload raised.
PhaseSteps ==
    {<<"Start", "UsageError">>, <<"Start", "ArgsValidated">>,
     <<"ArgsValidated", "LoggingConfigured">>, <<"ArgsValidated", "Aborted">>,
     <<"LoggingConfigured", "Fetching">>, <<"Fetching", "Fetched">>,
     <<"Fetched", "AIRequested">>, <<"AIRequested", "AIReplied">>,
     <<"AIRequested", "Aborted">>, <<"AIReplied", "Cleaned">>,
     <<"Cleaned", "Done">>}

AfterSend == {"AIRequested", "AIReplied", "Cleaned", "Done"}

C10_RunState ==
    /\ aiCalls <= 1
    /\ Phase \in AfterSend => aiCalls = 1 /\ calls = 1
    /\ aiCalls = 1 => pc[MainThread] \notin FetchPcs \cup {"m_fetched"}
    /\ Phase \in AfterSend \cup {"Fetched"}
         => /\ prompt_addendum = <<"Weather: ", weather>>
            /\ Failed(outcome[MainThread]) => weather = None
            /\ _fetching = FALSE
    /\ Phase = "Done" => response_val # <<>>
    /\ Phase \notin {"UsageError", "Done", "Aborted"} => ENABLED NextMain

\* C10, amended: past the argument check the run goes through Fetching,
\* Fetched, AIRequested, AIReplied, Cleaned, Done in that order; the AI
\* request is sent once, after fetch_weather has returned; a failed fetch is
\* absorbed and sent as "Weather: None"; the run aborts only where a call
\* into the payload (the prompt and connection set-up, send_message) raised,
\* and otherwise goes on to Done and returns a non-empty string.
C10_AbortsOnlyOnPayloadError ==
    /\ []C10_RunState
    /\ [][Phase' # Phase => <<Phase, Phase'>> \in PhaseSteps]_vars

\* The fetch failed, the run went on and has returned.
C10_Witness ==
    /\ Phase = "Done"
    /\ Failed(outcome[MainThread])
    /\ weather = None
    /\ aiCalls = 1

(***************************************************************************)
(* Properties of _clean_ai_response, under SpecClean.                      *)
(***************************************************************************)
\* C7: an opener (fence, alphabetic tag, newline), a body without backticks
\* or whitespace at its ends, a newline and a closer clean to the body; a
\* body alone cleans to itself; cleaning twice a text without fences gives
\* what cleaning it once gives.
C7_FencedBodyRecovered ==
    clean_done
        => /\ \A tag \in Tags :
                LET body == Take(Drop(raw_text, Len(tag) + 4), Len(raw_text) - Len(tag) - 8)
                IN  (IsBody(body) /\ raw_text = Fenced(tag, body, <<NL>>))
                        => response_text = body
           /\ IsBody(raw_text) => response_text = raw_text
           /\ NoFence(raw_text)
                => _clean_ai_response(response_text) = response_text

\* A tagged fence around a two-line body has been cleaned to the body.
C7_Witness ==
    /\ clean_done
    /\ raw_text = Fenced(<<"J", "a">>, <<"1", NL, "a">>, <<NL>>)
    /\ response_text = <<"1", NL, "a">>

\* C9 as stated: for every text, what _clean_ai_response returns neither
\* starts nor ends with three backticks.
C9_NoFenceAtEnds ==
    clean_done
        => ~StartsWith(response_text, Fence) /\ ~EndsWith(response_text, Fence)

\* The trimmed text without one fence at its start and one at its end.
Inner(s) ==
    LET t == strip(s)
        u == IF StartsWith(t, Fence) THEN Drop(t, 3) ELSE t
    IN  IF EndsWith(u, Fence) THEN Take(u, Len(u) - 3) ELSE u

\* C9, amended: when the trimmed text, one fence taken off its start and one
\* off its end, holds no further run of three backticks (at most one level
\* of fences), what _clean_ai_response returns neither starts nor ends with
\* three backticks.
C9_OneLevelNoFenceAtEnds ==
    (clean_done /\ NoFence(Inner(raw_text)))
        => ~StartsWith(response_text, Fence) /\ ~EndsWith(response_text, Fence)

\* One level of fences with whitespace before the closer has been cleaned.
C9_Witness ==
    /\ clean_done
    /\ raw_text = Fenced(<<>>, <<"a">>, <<SP, NL>>)
    /\ NoFence(Inner(raw_text))
    /\ response_text = <<"a", SP>>

====
